---- MODULE Spec2Model ----
(***************************************************************************)
(* simple-cs (src/main.c): a headless EGL/GLES 3.1 compute-shader runner.  *)
(* The program is one thread running main(): context_init,                *)
(* context_print_info, shader_load, shader_run, shader_unload,             *)
(* context_uninit, return 0.  Every statement that calls into libc, GBM,   *)
(* EGL or GL is one action; the result of the call is chosen by the        *)
(* environment among the results the API allows in the current state, and  *)
(* the assert() that follows the call belongs to the same action.          *)
(***************************************************************************)
EXTENDS Integers, Sequences, FiniteSets, TLC

\* ------------------------------------------------------------------ bounds
\* open() returns -1 or a descriptor in 0..MaxFd
MaxFd == 3
\* the display has 0..MaxConfigs configurations matching attr_list
MaxConfigs == 2
\* GL_INFO_LOG_LENGTH of a failed compile is in 0..MaxLogSize
MaxLogSize == 2
\* eglInitialize reports EGL 1.x, x in 0..MaxMinor
MaxMinor == 1

\* --------------------------------------------------------------- constants
NULL == "NULL"
EGL_NO_DISPLAY == NULL
EGL_NO_CONTEXT == NULL
EGL_NO_SURFACE == NULL
\* the value of a struct field or local no statement has written yet
UNINIT == "UNINIT"
GL_NO_ERROR == "GL_NO_ERROR"
GL_INVALID_ENUM == "GL_INVALID_ENUM"
GL_INVALID_VALUE == "GL_INVALID_VALUE"
GL_INVALID_OPERATION == "GL_INVALID_OPERATION"
GL_FALSE == 0
GL_TRUE == 1

\* the handles the libraries hand out (one object of each kind exists)
GBM_DEV == "gbm1"
DPY == "dpy1"
CFG == "cfg1"
CTX == "ctx1"

VARIABLES
  pc,          \* the statement main() executes next
  exit,        \* "running", "0" (main returned 0), "SIGABRT", "SIGSEGV"
  abortAt,     \* the statement whose assert failed (or that crashed)
  verbose,     \* int verbose
  node_fd, gbm, egl_disp, egl_ctx, egl_major, egl_minor,  \* struct context
  egl_exts, config, count,                                \* locals of context_init
  program_id,  \* struct shader
  shader_id, src, success, log_size,                      \* locals of shader_load
  \* the world behind the handles
  fdOpen,      \* the descriptors this process holds open on the render node
  gbmState,    \* "none", "alive", "destroyed"
  dpyState,    \* "none", "uninitialized", "initialized", "terminated"
  dpyExts,     \* the extension string of the display (a sequence of symbols)
  ctxState,    \* "none", "alive", "marked" (destroy pending), "destroyed"
  current,     \* the context current on the thread: EGL_NO_CONTEXT or CTX
  boundApi,    \* "EGL_OPENGL_ES_API" once eglBindAPI succeeded, "EGL_NONE" before
  shaderObj,   \* "none", "alive", "flagged" (delete pending), "deleted"
  compiled,    \* GL_COMPILE_STATUS of the shader object
  progObj,     \* "none", "alive", "flagged" (delete pending), "deleted"
  attached,    \* the shader object is attached to the program object
  linked,      \* GL_LINK_STATUS of the program object
  activeProg,  \* the program glUseProgram installed (0: none)
  glError,     \* the context's error flag, read and cleared by glGetError
  log,         \* every library call made so far, in order
  out          \* every line printed so far, in order

ctxvars == <<node_fd, gbm, egl_disp, egl_ctx, egl_major, egl_minor>>
initlocals == <<egl_exts, config, count>>
shadervars == <<program_id, shader_id, src, success, log_size>>
eglworld == <<fdOpen, gbmState, dpyState, dpyExts, ctxState, current, boundApi>>
glworld == <<shaderObj, compiled, progObj, attached, linked, activeProg, glError>>
vars == <<pc, exit, abortAt, verbose, ctxvars, initlocals, shadervars,
          eglworld, glworld, log, out>>

\* ----------------------------------------------------- extension strings
\* A string is a sequence of symbols; " " separates the names of an
\* extension string.
EXT_CREATE_CONTEXT == <<"EGL_KHR_create_context">>
EXT_CREATE_CONTEXT_NO_ERROR == <<"EGL_KHR_create_context", "_no_error">>
EXT_SURFACELESS == <<"EGL_KHR_surfaceless_context">>
EXT_FENCE_SYNC == <<"EGL_KHR_fence_sync">>
ExtOrder == <<EXT_FENCE_SYNC, EXT_CREATE_CONTEXT_NO_ERROR, EXT_CREATE_CONTEXT,
              EXT_SURFACELESS>>

RECURSIVE Join(_, _)
\* the names ExtOrder[i], i in S, in order, each followed by " " (as Mesa does)
Join(S, i) ==
  IF i > Len(ExtOrder) THEN <<>>
  ELSE (IF i \in S THEN ExtOrder[i] \o <<" ">> ELSE <<>>) \o Join(S, i + 1)

ExtStrings == {Join(S, 1) : S \in SUBSET (1..Len(ExtOrder))}

\* strstr(hay, needle) != NULL
StrStr(hay, needle) ==
  \E i \in 1..(Len(hay) + 1) :
     /\ i + Len(needle) - 1 <= Len(hay)
     /\ SubSeq(hay, i, i + Len(needle) - 1) = needle

\* ------------------------------------------------------------- bookkeeping
\* one library call: its name, its main argument, and whether the step it
\* implements succeeded
Call(name, arg, ok) == [call |-> name, arg |-> arg, ok |-> ok]

\* assert(cond) after the statement at pc: go on to `next`, or abort()
AssertThen(cond, next) ==
  IF cond
  THEN /\ pc' = next
       /\ UNCHANGED <<exit, abortAt>>
  ELSE /\ pc' = "aborted"
       /\ exit' = "SIGABRT"
       /\ abortAt' = pc

Init ==
  /\ pc = "open"
  /\ exit = "running"
  /\ abortAt = "none"
  /\ verbose \in {0, 1}
  /\ node_fd = UNINIT /\ gbm = UNINIT /\ egl_disp = UNINIT /\ egl_ctx = UNINIT
  /\ egl_major = UNINIT /\ egl_minor = UNINIT
  /\ egl_exts = UNINIT /\ config = UNINIT /\ count = UNINIT
  /\ program_id = UNINIT /\ shader_id = UNINIT /\ src = UNINIT
  /\ success = UNINIT /\ log_size = UNINIT
  /\ fdOpen = {}
  /\ gbmState = "none"
  /\ dpyState = "none"
  /\ dpyExts \in ExtStrings
  /\ ctxState = "none"
  /\ current = EGL_NO_CONTEXT
  /\ boundApi = "EGL_NONE"
  /\ shaderObj = "none" /\ compiled = GL_FALSE
  /\ progObj = "none" /\ attached = FALSE /\ linked = GL_FALSE
  /\ activeProg = 0
  /\ glError = GL_NO_ERROR
  /\ log = <<>>
  /\ out = <<>>

\* ============================================================ context_init
\* ctx->node_fd = open("/dev/dri/renderD128", O_RDWR); assert(ctx->node_fd > 0);
AssertNodeFd(fd) == fd > 0

Open ==
  /\ pc = "open"
  /\ \E fd \in {-1} \cup (0..MaxFd) :
       /\ node_fd' = fd
       /\ fdOpen' = IF fd >= 0 THEN fdOpen \cup {fd} ELSE fdOpen
       /\ log' = Append(log, Call("open", "/dev/dri/renderD128", fd >= 0))
       /\ AssertThen(AssertNodeFd(fd), "gbm_create_device")
  /\ UNCHANGED <<verbose, gbm, egl_disp, egl_ctx, egl_major, egl_minor,
                 initlocals, shadervars, gbmState, dpyState, dpyExts, ctxState,
                 current, boundApi, glworld, out>>

\* ctx->gbm = gbm_create_device(ctx->node_fd); assert(ctx->gbm > 0);
GbmCreateDevice ==
  /\ pc = "gbm_create_device"
  /\ \E r \in {NULL, GBM_DEV} :
       /\ gbm' = r
       /\ gbmState' = IF r # NULL THEN "alive" ELSE gbmState
       /\ log' = Append(log, Call("gbm_create_device", ToString(node_fd), r # NULL))
       /\ AssertThen(r # NULL, "eglGetPlatformDisplay")
  /\ UNCHANGED <<verbose, node_fd, egl_disp, egl_ctx, egl_major, egl_minor,
                 initlocals, shadervars, fdOpen, dpyState, dpyExts, ctxState,
                 current, boundApi, glworld, out>>

\* ctx->egl_disp = eglGetPlatformDisplay(EGL_PLATFORM_GBM_MESA, ctx->gbm, NULL);
\* assert(ctx->egl_disp != EGL_NO_DISPLAY);
EglGetPlatformDisplay ==
  /\ pc = "eglGetPlatformDisplay"
  /\ \E r \in {EGL_NO_DISPLAY, DPY} :
       /\ egl_disp' = r
       /\ dpyState' = IF r # EGL_NO_DISPLAY THEN "uninitialized" ELSE dpyState
       /\ log' = Append(log, Call("eglGetPlatformDisplay", gbm, r # EGL_NO_DISPLAY))
       /\ AssertThen(r # EGL_NO_DISPLAY, "eglInitialize")
  /\ UNCHANGED <<verbose, node_fd, gbm, egl_ctx, egl_major, egl_minor,
                 initlocals, shadervars, fdOpen, gbmState, dpyExts, ctxState,
                 current, boundApi, glworld, out>>

\* ret = eglInitialize(ctx->egl_disp, &ctx->egl_major, &ctx->egl_minor);
\* assert(ret);
EglInitialize ==
  /\ pc = "eglInitialize"
  /\ \/ \E minor \in 0..MaxMinor :
          /\ egl_major' = 1
          /\ egl_minor' = minor
          /\ dpyState' = "initialized"
          /\ log' = Append(log, Call("eglInitialize", egl_disp, TRUE))
          /\ AssertThen(TRUE, "eglQueryString")
     \/ /\ UNCHANGED <<egl_major, egl_minor, dpyState>>
        /\ log' = Append(log, Call("eglInitialize", egl_disp, FALSE))
        /\ AssertThen(FALSE, "eglQueryString")
  /\ UNCHANGED <<verbose, node_fd, gbm, egl_disp, egl_ctx,
                 initlocals, shadervars, fdOpen, gbmState, dpyExts, ctxState,
                 current, boundApi, glworld, out>>

\* egl_exts = eglQueryString(ctx->egl_disp, EGL_EXTENSIONS);
\* The query fails (NULL) only on a display that is not initialized.
QueryExtensions(d) ==
  IF d = DPY /\ dpyState = "initialized" THEN dpyExts ELSE NULL

EglQueryString ==
  /\ pc = "eglQueryString"
  /\ egl_exts' = QueryExtensions(egl_disp)
  /\ log' = Append(log, Call("eglQueryString", egl_disp,
                             QueryExtensions(egl_disp) # NULL))
  /\ pc' = "assert_exts"
  /\ UNCHANGED <<exit, abortAt, verbose, ctxvars, config, count, shadervars,
                 eglworld, glworld, out>>

\* assert(strstr(egl_exts, "EGL_KHR_create_context") != NULL);
\* assert(strstr(egl_exts, "EGL_KHR_surfaceless_context") != NULL);
HasRequiredExts(exts) ==
  /\ StrStr(exts, EXT_CREATE_CONTEXT)
  /\ StrStr(exts, EXT_SURFACELESS)

CheckExtensions ==
  /\ pc = "assert_exts"
  /\ IF egl_exts = NULL
     THEN \* strstr(NULL, ...) dereferences a null pointer
          /\ pc' = "aborted"
          /\ exit' = "SIGSEGV"
          /\ abortAt' = pc
     ELSE AssertThen(HasRequiredExts(egl_exts), "eglChooseConfig")
  /\ UNCHANGED <<verbose, ctxvars, initlocals, shadervars, eglworld, glworld,
                 log, out>>

\* ret = eglChooseConfig(ctx->egl_disp, attr_list, &config, 1, &count);
\* assert(ret);
\* With n matching configurations the call returns EGL_TRUE, stores
\* min(n, config_size) handles and sets count to that number; with n = 0 it
\* stores nothing and config keeps its indeterminate value.
Min(a, b) == IF a < b THEN a ELSE b

EglChooseConfig ==
  /\ pc = "eglChooseConfig"
  /\ \/ \E k \in 0..MaxConfigs :
        LET n == MaxConfigs - k IN
          /\ count' = Min(n, 1)
          /\ config' = IF n >= 1 THEN CFG ELSE config
          /\ log' = Append(log, Call("eglChooseConfig", egl_disp, n >= 1))
          /\ AssertThen(TRUE, "eglBindAPI")
     \/ /\ UNCHANGED <<config, count>>
        /\ log' = Append(log, Call("eglChooseConfig", egl_disp, FALSE))
        /\ AssertThen(FALSE, "eglBindAPI")
  /\ UNCHANGED <<verbose, ctxvars, egl_exts, shadervars, eglworld, glworld, out>>

\* ret = eglBindAPI(EGL_OPENGL_ES_API); assert(ret);
EglBindAPI ==
  /\ pc = "eglBindAPI"
  /\ \E ret \in BOOLEAN :
       /\ boundApi' = IF ret THEN "EGL_OPENGL_ES_API" ELSE boundApi
       /\ log' = Append(log, Call("eglBindAPI", "EGL_OPENGL_ES_API", ret))
       /\ AssertThen(ret, "eglCreateContext")
  /\ UNCHANGED <<verbose, ctxvars, initlocals, shadervars, fdOpen, gbmState,
                 dpyState, dpyExts, ctxState, current, glworld, out>>

\* ctx->egl_ctx = eglCreateContext(ctx->egl_disp, config, EGL_NO_CONTEXT, ctx_attr);
\* assert(ctx->egl_ctx != EGL_NO_CONTEXT);
\* An indeterminate config is either no configuration of the display
\* (EGL_BAD_CONFIG) or, by accident, the handle of one; a context for a valid
\* configuration may still be refused (EGL_BAD_ALLOC, EGL_BAD_MATCH).
EglCreateContext ==
  /\ pc = "eglCreateContext"
  /\ \E r \in {EGL_NO_CONTEXT, CTX} :
       /\ egl_ctx' = r
       /\ ctxState' = IF r # EGL_NO_CONTEXT THEN "alive" ELSE ctxState
       /\ log' = Append(log, Call("eglCreateContext", config, r # EGL_NO_CONTEXT))
       /\ AssertThen(r # EGL_NO_CONTEXT, "eglMakeCurrent")
  /\ UNCHANGED <<verbose, node_fd, gbm, egl_disp, egl_major, egl_minor,
                 initlocals, shadervars, fdOpen, gbmState, dpyState, dpyExts,
                 current, boundApi, glworld, out>>

\* ret = eglMakeCurrent(ctx->egl_disp, EGL_NO_SURFACE, EGL_NO_SURFACE, ctx->egl_ctx);
\* assert(ret);
EglMakeCurrent ==
  /\ pc = "eglMakeCurrent"
  /\ \E ret \in BOOLEAN :
       /\ current' = IF ret THEN egl_ctx ELSE current
       /\ log' = Append(log, Call("eglMakeCurrent", egl_ctx, ret))
       /\ AssertThen(ret, "context_print_info")
  /\ UNCHANGED <<verbose, ctxvars, initlocals, shadervars, fdOpen, gbmState,
                 dpyState, dpyExts, ctxState, boundApi, glworld, out>>

\* ====================================================== context_print_info
\* glGetString(name): a string while a context is current, NULL otherwise
GlGetString(name) == IF current # EGL_NO_CONTEXT THEN name ELSE NULL

\* the extension strings printed whatever the flag
IfVerboseAlways(lines) == lines

\* if (verbose) { ... }: what the guarded statements add
IfVerbose(lines) == IF verbose # 0 THEN lines ELSE <<>>

ContextPrintInfo ==
  /\ pc = "context_print_info"
  /\ out' = out
       \o <<<<"EGL v", <<egl_major, egl_minor>>>>>>
       \o IfVerbose(<<<<"EGL Extensions: ", QueryExtensions(egl_disp)>>>>)
       \o <<<<"GL Vendor: ", GlGetString("GL_VENDOR")>>,
            <<"GL Renderer: ", GlGetString("GL_RENDERER")>>,
            <<"GL Version: ", GlGetString("GL_VERSION")>>,
            <<"GL Shading language: ", GlGetString("GL_SHADING_LANGUAGE_VERSION")>>>>
       \o IfVerbose(<<<<"GL Extensions: ", GlGetString("GL_EXTENSIONS")>>>>)
  /\ log' = log
       \o IfVerbose(<<Call("eglQueryString", egl_disp,
                            QueryExtensions(egl_disp) # NULL)>>)
       \o <<Call("glGetString", "GL_VENDOR", GlGetString("GL_VENDOR") # NULL),
            Call("glGetString", "GL_RENDERER", GlGetString("GL_RENDERER") # NULL),
            Call("glGetString", "GL_VERSION", GlGetString("GL_VERSION") # NULL),
            Call("glGetString", "GL_SHADING_LANGUAGE_VERSION",
                 GlGetString("GL_SHADING_LANGUAGE_VERSION") # NULL)>>
       \o IfVerbose(<<Call("glGetString", "GL_EXTENSIONS",
                            GlGetString("GL_EXTENSIONS") # NULL)>>)
  /\ pc' = "fopen"
  /\ UNCHANGED <<exit, abortAt, verbose, ctxvars, initlocals, shadervars,
                 eglworld, glworld>>

\* ============================================================= shader_load
\* glGetError(): the flag after a call that raises `e` (GL_NO_ERROR: none);
\* the first error recorded is the one kept
Raise(e) == IF glError = GL_NO_ERROR THEN e ELSE glError

\* f = fopen(filename, "rb"); assert(f != NULL); ... fread ... fclose;
\* src[filesize] = '\0'; if (verbose) printf(...)
\* The file holds a unit the compiler accepts ("valid") or one it rejects.
ReadSource ==
  /\ pc = "fopen"
  /\ \/ /\ log' = Append(log, Call("fopen", "shader.cs", FALSE))
        /\ AssertThen(FALSE, "glCreateShader")
        /\ UNCHANGED <<src, out>>
     \/ \E text \in {"valid", "invalid"} :
          /\ src' = text
          /\ log' = Append(log, Call("fopen", "shader.cs", TRUE))
          /\ out' = IF verbose # 0
                    THEN Append(out, <<"Compute shader source:", text>>)
                    ELSE out
          /\ AssertThen(TRUE, "glCreateShader")
  /\ UNCHANGED <<verbose, ctxvars, initlocals, program_id, shader_id, success,
                 log_size, eglworld, glworld>>

\* shader_id = glCreateShader(GL_COMPUTE_SHADER);
\* assert(glGetError() == GL_NO_ERROR);
\* 0 and GL_INVALID_ENUM where the context has no compute stage (ES 3.0).
GlCreateShader ==
  /\ pc = "glCreateShader"
  /\ \E id \in {0, 1} :
       /\ shader_id' = id
       /\ shaderObj' = IF id # 0 THEN "alive" ELSE shaderObj
       /\ log' = Append(log, Call("glCreateShader", "GL_COMPUTE_SHADER", id # 0))
       /\ AssertThen(Raise(IF id = 0 THEN GL_INVALID_ENUM ELSE GL_NO_ERROR)
                       = GL_NO_ERROR, "glShaderSource")
  /\ glError' = GL_NO_ERROR
  /\ UNCHANGED <<verbose, ctxvars, initlocals, program_id, src, success,
                 log_size, eglworld, compiled, progObj, attached, linked,
                 activeProg, out>>

\* a name of a live shader object
IsShader(id) == id # 0 /\ shaderObj \in {"alive", "flagged"}
\* a name of a live program object
IsProgram(id) == id # 0 /\ progObj \in {"alive", "flagged"}

\* glShaderSource(shader_id, 1, (const GLchar **)&src, NULL);
\* assert(glGetError() == GL_NO_ERROR);
GlShaderSource ==
  /\ pc = "glShaderSource"
  /\ log' = Append(log, Call("glShaderSource", ToString(shader_id), IsShader(shader_id)))
  /\ AssertThen(Raise(IF IsShader(shader_id) THEN GL_NO_ERROR ELSE GL_INVALID_VALUE)
                  = GL_NO_ERROR, "glCompileShader")
  /\ glError' = GL_NO_ERROR
  /\ UNCHANGED <<verbose, ctxvars, initlocals, shadervars, eglworld, shaderObj,
                 compiled, progObj, attached, linked, activeProg, out>>

\* glCompileShader(shader_id); assert(glGetError() == GL_NO_ERROR);
\* A rejected source raises no GL error: it clears GL_COMPILE_STATUS.
CompileResult(text) == IF text = "valid" THEN GL_TRUE ELSE GL_FALSE

GlCompileShader ==
  /\ pc = "glCompileShader"
  /\ compiled' = IF IsShader(shader_id) THEN CompileResult(src) ELSE compiled
  /\ log' = Append(log, Call("glCompileShader", ToString(shader_id),
                             IsShader(shader_id) /\ CompileResult(src) = GL_TRUE))
  /\ AssertThen(Raise(IF IsShader(shader_id) THEN GL_NO_ERROR ELSE GL_INVALID_VALUE)
                  = GL_NO_ERROR, "check_compile")
  /\ glError' = GL_NO_ERROR
  /\ UNCHANGED <<verbose, ctxvars, initlocals, shadervars, eglworld, shaderObj,
                 progObj, attached, linked, activeProg, out>>

\* glGetShaderiv(shader_id, GL_COMPILE_STATUS, &success);
\* if (success == GL_FALSE) { glGetShaderiv(.., GL_INFO_LOG_LENGTH, &log_size);
\*   log_buf = malloc(log_size); glGetShaderInfoLog(..); printf(..);
\*   free(log_buf); assert(success != GL_FALSE); }
\* the assert of line 175 compiled out (as under NDEBUG)
AssertCompiledOff(status) == TRUE

AssertCompiled(status) == status # GL_FALSE

CheckCompileStatus ==
  /\ pc = "check_compile"
  /\ success' = compiled
  /\ IF compiled = GL_FALSE
     THEN \E n \in 0..MaxLogSize :
            /\ log_size' = n
            /\ log' = log \o
                 <<Call("glGetShaderiv", "GL_COMPILE_STATUS", TRUE),
                   Call("glGetShaderiv", "GL_INFO_LOG_LENGTH", TRUE),
                   Call("glGetShaderInfoLog", ToString(shader_id), TRUE)>>
            /\ out' = Append(out, <<"Shader compilation error: ", "shader.cs", n>>)
            /\ AssertThen(AssertCompiled(compiled), "glCreateProgram")
     ELSE /\ log' = Append(log, Call("glGetShaderiv", "GL_COMPILE_STATUS", TRUE))
          /\ pc' = "glCreateProgram"
          /\ UNCHANGED <<log_size, out, exit, abortAt>>
  /\ UNCHANGED <<verbose, ctxvars, initlocals, program_id, shader_id, src,
                 eglworld, glworld>>

\* shader->program_id = glCreateProgram();
\* 0 when the object cannot be created; the result is not examined.
GlCreateProgram ==
  /\ pc = "glCreateProgram"
  /\ \E id \in {0, 2} :
       /\ program_id' = id
       /\ progObj' = IF id # 0 THEN "alive" ELSE progObj
       /\ log' = Append(log, Call("glCreateProgram", "", id # 0))
  /\ pc' = "glAttachShader"
  /\ UNCHANGED <<exit, abortAt, verbose, ctxvars, initlocals, shader_id, src,
                 success, log_size, eglworld, shaderObj, compiled, attached,
                 linked, activeProg, glError, out>>

\* glAttachShader(shader->program_id, shader_id);
\* assert(glGetError() == GL_NO_ERROR);
GlAttachShader ==
  /\ pc = "glAttachShader"
  /\ attached' = IF IsProgram(program_id) /\ IsShader(shader_id) THEN TRUE ELSE attached
  /\ log' = Append(log, Call("glAttachShader", ToString(program_id),
                             IsProgram(program_id) /\ IsShader(shader_id)))
  /\ AssertThen(Raise(IF IsProgram(program_id) /\ IsShader(shader_id)
                      THEN GL_NO_ERROR ELSE GL_INVALID_VALUE)
                  = GL_NO_ERROR, "glLinkProgram")
  /\ glError' = GL_NO_ERROR
  /\ UNCHANGED <<verbose, ctxvars, initlocals, shadervars, eglworld, shaderObj,
                 compiled, progObj, linked, activeProg, out>>

\* glLinkProgram(shader->program_id); assert(glGetError() == GL_NO_ERROR);
\* A rejected link raises no GL error: it clears GL_LINK_STATUS.  A program
\* whose attached unit compiled may still be rejected (resource limits).
GlLinkProgram ==
  /\ pc = "glLinkProgram"
  /\ \E status \in {GL_FALSE, GL_TRUE} :
       /\ status = GL_TRUE => (attached /\ compiled = GL_TRUE)
       /\ linked' = IF IsProgram(program_id) THEN status ELSE linked
       /\ log' = Append(log, Call("glLinkProgram", ToString(program_id),
                                  IsProgram(program_id) /\ status = GL_TRUE))
       /\ AssertThen(Raise(IF IsProgram(program_id)
                           THEN GL_NO_ERROR ELSE GL_INVALID_VALUE) = GL_NO_ERROR,
                     "glDeleteShader")
  /\ glError' = GL_NO_ERROR
  /\ UNCHANGED <<verbose, ctxvars, initlocals, shadervars, eglworld, shaderObj,
                 compiled, progObj, attached, activeProg, out>>

\* glDeleteShader(shader_id);
\* A shader object attached to a program is only flagged for deletion.
GlDeleteShader ==
  /\ pc = "glDeleteShader"
  /\ shaderObj' = IF IsShader(shader_id)
                  THEN (IF attached THEN "flagged" ELSE "deleted")
                  ELSE shaderObj
  /\ glError' = Raise(IF shader_id = 0 \/ IsShader(shader_id)
                      THEN GL_NO_ERROR ELSE GL_INVALID_VALUE)
  /\ log' = Append(log, Call("glDeleteShader", ToString(shader_id), IsShader(shader_id)))
  /\ pc' = "glUseProgram"
  /\ UNCHANGED <<exit, abortAt, verbose, ctxvars, initlocals, shadervars,
                 eglworld, compiled, progObj, attached, linked, activeProg, out>>

\* ============================================================== shader_run
\* glUseProgram(shader->program_id); assert(glGetError() == GL_NO_ERROR);
\* GL_INVALID_OPERATION for a program that is not linked successfully.
UseProgramError(id) ==
  IF id = 0 THEN GL_NO_ERROR
  ELSE IF ~IsProgram(id) THEN GL_INVALID_VALUE
  ELSE IF linked # GL_TRUE THEN GL_INVALID_OPERATION
  ELSE GL_NO_ERROR

GlUseProgram ==
  /\ pc = "glUseProgram"
  /\ activeProg' = IF UseProgramError(program_id) = GL_NO_ERROR
                   THEN program_id ELSE activeProg
  /\ log' = Append(log, Call("glUseProgram", ToString(program_id),
                             UseProgramError(program_id) = GL_NO_ERROR))
  /\ AssertThen(Raise(UseProgramError(program_id)) = GL_NO_ERROR, "glDispatchCompute")
  /\ glError' = GL_NO_ERROR
  /\ UNCHANGED <<verbose, ctxvars, initlocals, shadervars, eglworld, shaderObj,
                 compiled, progObj, attached, linked, out>>

\* glDispatchCompute(1, 1, 1); assert(glGetError() == GL_NO_ERROR);
\* GL_INVALID_OPERATION when no program with a compute stage is active.
\* the dispatch with no active program taken for a no-op
DispatchErrorIgnored == GL_NO_ERROR

DispatchError == IF activeProg = 0 THEN GL_INVALID_OPERATION ELSE GL_NO_ERROR

\* shader_run that also releases the context from the thread after the
\* dispatch
GlDispatchComputeReleasing ==
  /\ pc = "glDispatchCompute"
  /\ log' = Append(log, Call("glDispatchCompute", "1,1,1", DispatchError = GL_NO_ERROR))
  /\ AssertThen(Raise(DispatchError) = GL_NO_ERROR, "glDeleteProgram")
  /\ glError' = GL_NO_ERROR
  /\ current' = EGL_NO_CONTEXT
  /\ UNCHANGED <<verbose, ctxvars, initlocals, shadervars, fdOpen, gbmState,
                 dpyState, dpyExts, ctxState, boundApi, shaderObj,
                 compiled, progObj, attached, linked, activeProg, out>>

GlDispatchCompute ==
  /\ pc = "glDispatchCompute"
  /\ log' = Append(log, Call("glDispatchCompute", "1,1,1", DispatchError = GL_NO_ERROR))
  /\ AssertThen(Raise(DispatchError) = GL_NO_ERROR, "glDeleteProgram")
  /\ glError' = GL_NO_ERROR
  /\ UNCHANGED <<verbose, ctxvars, initlocals, shadervars, eglworld, shaderObj,
                 compiled, progObj, attached, linked, activeProg, out>>

\* =========================================================== shader_unload
\* glDeleteProgram(shader->program_id);
\* A program that is part of the current state is only flagged for
\* deletion; deleting a program detaches its shader objects, and a detached
\* shader object flagged for deletion is deleted.
GlDeleteProgram ==
  /\ pc = "glDeleteProgram"
  /\ IF IsProgram(program_id)
     THEN IF activeProg = program_id
          THEN /\ progObj' = "flagged"
               /\ UNCHANGED <<attached, shaderObj>>
          ELSE /\ progObj' = "deleted"
               /\ attached' = FALSE
               /\ shaderObj' = IF attached /\ shaderObj = "flagged"
                               THEN "deleted" ELSE shaderObj
     ELSE UNCHANGED <<progObj, attached, shaderObj>>
  /\ glError' = Raise(IF program_id = 0 \/ IsProgram(program_id)
                      THEN GL_NO_ERROR ELSE GL_INVALID_VALUE)
  /\ log' = Append(log, Call("glDeleteProgram", ToString(program_id),
                             IsProgram(program_id)))
  /\ pc' = "eglDestroyContext"
  /\ UNCHANGED <<exit, abortAt, verbose, ctxvars, initlocals, shadervars,
                 eglworld, compiled, linked, activeProg, out>>

\* ========================================================== context_uninit
\* eglDestroyContext(ctx->egl_disp, ctx->egl_ctx);
\* ctx->egl_disp = ctx->egl_ctx = NULL;
\* A context that is current is only marked for deletion; it is destroyed
\* when it stops being current.
DestroyContextOk(d, c) ==
  d = DPY /\ dpyState = "initialized" /\ c = CTX /\ ctxState = "alive"

EglDestroyContext ==
  /\ pc = "eglDestroyContext"
  /\ ctxState' = IF DestroyContextOk(egl_disp, egl_ctx)
                 THEN (IF current = egl_ctx THEN "marked" ELSE "destroyed")
                 ELSE ctxState
  /\ log' = Append(log, Call("eglDestroyContext", egl_ctx,
                             DestroyContextOk(egl_disp, egl_ctx)))
  /\ egl_ctx' = NULL
  /\ egl_disp' = NULL
  /\ pc' = "eglTerminate"
  /\ UNCHANGED <<exit, abortAt, verbose, node_fd, gbm, egl_major, egl_minor,
                 initlocals, shadervars, fdOpen, gbmState, dpyState, dpyExts,
                 current, boundApi, glworld, out>>

\* eglTerminate(ctx->egl_disp); ctx->egl_disp = NULL;
\* EGL_FALSE (EGL_BAD_DISPLAY) and no effect unless the argument is a
\* display; terminating a display marks its contexts for deletion.
TerminateOk(d) == d = DPY /\ dpyState \in {"uninitialized", "initialized", "terminated"}

EglTerminate ==
  /\ pc = "eglTerminate"
  /\ dpyState' = IF TerminateOk(egl_disp) /\ dpyState = "initialized"
                 THEN "terminated" ELSE dpyState
  /\ ctxState' = IF TerminateOk(egl_disp) /\ ctxState = "alive"
                 THEN (IF current = CTX THEN "marked" ELSE "destroyed")
                 ELSE ctxState
  /\ log' = Append(log, Call("eglTerminate", egl_disp, TerminateOk(egl_disp)))
  /\ egl_disp' = NULL
  /\ pc' = "gbm_device_destroy"
  /\ UNCHANGED <<exit, abortAt, verbose, node_fd, gbm, egl_ctx, egl_major,
                 egl_minor, initlocals, shadervars, fdOpen, gbmState, dpyExts,
                 current, boundApi, glworld, out>>

\* gbm_device_destroy(ctx->gbm); ctx->gbm = NULL;
GbmDeviceDestroy ==
  /\ pc = "gbm_device_destroy"
  /\ gbmState' = IF gbm = GBM_DEV /\ gbmState = "alive" THEN "destroyed" ELSE gbmState
  /\ log' = Append(log, Call("gbm_device_destroy", gbm,
                             gbm = GBM_DEV /\ gbmState = "alive"))
  /\ gbm' = NULL
  /\ pc' = "return"
  /\ UNCHANGED <<exit, abortAt, verbose, node_fd, egl_disp, egl_ctx, egl_major,
                 egl_minor, initlocals, shadervars, fdOpen, dpyState, dpyExts,
                 ctxState, current, boundApi, glworld, out>>

\* ==================================================================== main
\* return 0;
Return ==
  /\ pc = "return"
  /\ pc' = "done"
  /\ exit' = "0"
  /\ UNCHANGED <<abortAt, verbose, ctxvars, initlocals, shadervars, eglworld,
                 glworld, log, out>>

Next ==
  \/ Open
  \/ GbmCreateDevice
  \/ EglGetPlatformDisplay
  \/ EglInitialize
  \/ EglQueryString
  \/ CheckExtensions
  \/ EglChooseConfig
  \/ EglBindAPI
  \/ EglCreateContext
  \/ EglMakeCurrent
  \/ ContextPrintInfo
  \/ ReadSource
  \/ GlCreateShader
  \/ GlShaderSource
  \/ GlCompileShader
  \/ CheckCompileStatus
  \/ GlCreateProgram
  \/ GlAttachShader
  \/ GlLinkProgram
  \/ GlDeleteShader
  \/ GlUseProgram
  \/ GlDispatchCompute
  \/ GlDeleteProgram
  \/ EglDestroyContext
  \/ EglTerminate
  \/ GbmDeviceDestroy
  \/ Return

Spec == Init /\ [][Next]_vars

\* shader_run entered with the context current and a struct shader for which
\* no shader_load has succeeded: program_id zero, program_id the name of no
\* object (never written), or the name of a program whose link was rejected
UnloadedShaders ==
  {[id |-> 0, obj |-> "none", att |-> FALSE],
   [id |-> 7, obj |-> "none", att |-> FALSE],
   [id |-> 2, obj |-> "alive", att |-> TRUE]}

RunInit ==
  /\ pc = "glUseProgram"
  /\ exit = "running"
  /\ abortAt = "none"
  /\ verbose \in {0, 1}
  /\ node_fd \in 1..MaxFd /\ fdOpen = {node_fd}
  /\ gbm = GBM_DEV /\ gbmState = "alive"
  /\ egl_disp = DPY /\ dpyState = "initialized"
  /\ dpyExts \in {e \in ExtStrings : HasRequiredExts(e)} /\ egl_exts = dpyExts
  /\ egl_major = 1 /\ egl_minor \in 0..MaxMinor
  /\ config = CFG /\ count = 1
  /\ egl_ctx = CTX /\ ctxState = "alive" /\ current = CTX
  /\ boundApi = "EGL_OPENGL_ES_API"
  /\ \E sh \in UnloadedShaders :
       /\ program_id = sh.id
       /\ progObj = sh.obj
       /\ attached = sh.att
       /\ shaderObj = IF sh.att THEN "flagged" ELSE "none"
       /\ compiled = IF sh.att THEN GL_TRUE ELSE GL_FALSE
       /\ shader_id = IF sh.att THEN 1 ELSE UNINIT
       /\ src = IF sh.att THEN "valid" ELSE UNINIT
       /\ success = IF sh.att THEN GL_TRUE ELSE UNINIT
  /\ log_size = UNINIT
  /\ linked = GL_FALSE
  /\ activeProg = 0
  /\ glError = GL_NO_ERROR
  /\ log = <<>>
  /\ out = <<>>

\* main(), and shader_run called on its own
SpecRun == (Init \/ RunInit) /\ [][Next]_vars

\* ================================================================== claims
Called(name) == \E i \in DOMAIN log : log[i].call = name
CalledWith(name, arg) == \E i \in DOMAIN log : log[i].call = name /\ log[i].arg = arg

\* the display advertises the extension `name`: it is one of the
\* space-separated names of `s`
Advertises(s, name) ==
  \E i \in 1..Len(s) :
     /\ i + Len(name) - 1 <= Len(s)
     /\ SubSeq(s, i, i + Len(name) - 1) = name
     /\ (i = 1 \/ s[i - 1] = " ")
     /\ (i + Len(name) > Len(s) \/ s[i + Len(name)] = " ")

\* C1: in a run in which all steps succeed (main returns 0) the resources
\* are released in reverse order of acquisition: the program object is
\* deleted, then the execution context is destroyed, then the display that
\* was initialized is terminated, then the device abstraction is destroyed.
C1_ReverseOrderRelease ==
  exit = "0" =>
    \E i, j, k, l \in DOMAIN log :
      /\ i < j /\ j < k /\ k < l
      /\ log[i].call = "glDeleteProgram" /\ log[i].ok
      /\ log[j].call = "eglDestroyContext" /\ log[j].arg = CTX
      /\ log[k].call = "eglTerminate" /\ log[k].arg = DPY
      /\ log[l].call = "gbm_device_destroy" /\ log[l].arg = GBM_DEV

\* C2: when context_uninit has returned after a successful context_init,
\* everything context_init acquired is released and every handle field is
\* invalid: the render node is closed, the device abstraction destroyed, the
\* display terminated, the execution context destroyed.
C2_AllReleasedAfterUninit ==
  pc \in {"return", "done"} =>
    /\ fdOpen = {}
    /\ gbmState = "destroyed" /\ gbm = NULL
    /\ dpyState = "terminated" /\ egl_disp = NULL
    /\ ctxState = "destroyed" /\ egl_ctx = NULL

\* C3: ownership chain: in every state, an execution context that is alive
\* (created, not yet actually destroyed) has its display alive (initialized,
\* not terminated), and a display that is alive has its device abstraction
\* alive (created, not destroyed).
C3_OwnershipChain ==
  /\ ctxState \in {"alive", "marked"} => dpyState = "initialized"
  /\ dpyState = "initialized" => gbmState = "alive"

\* the nine steps of context_init, by the library call each one makes
InitSteps ==
  <<"open", "gbm_create_device", "eglGetPlatformDisplay", "eglInitialize",
    "eglQueryString", "eglChooseConfig", "eglBindAPI", "eglCreateContext",
    "eglMakeCurrent">>

\* C4: context_init makes its nine steps in the documented order, each one
\* only after every step before it has succeeded, and hands no handle to a
\* call before the call that produces the handle has succeeded.
C4_InitStepsInOrder ==
  /\ \A i \in DOMAIN log :
       i <= Len(InitSteps) =>
         /\ log[i].call = InitSteps[i]
         /\ \A j \in 1..(i - 1) : log[j].ok
  /\ \A i \in DOMAIN log :
       log[i].call \in {"gbm_create_device", "eglGetPlatformDisplay",
                        "eglInitialize", "eglCreateContext", "eglMakeCurrent"}
         => log[i].arg \notin {UNINIT, NULL, "-1"}

\* the calls of shader_unload and context_uninit
ReleaseCalls ==
  {"glDeleteProgram", "eglDestroyContext", "eglTerminate", "gbm_device_destroy"}

\* the queries of the compile check (src/main.c:168-172)
CompileCheckCalls == {"glGetShaderiv", "glGetShaderInfoLog"}

\* C5: fail-fast: a step of initialize, load or run that fails is the last
\* thing the run does: the run is aborted at that step, nothing is executed
\* after it, and the process does not exit with status 0.
\* (A failed compile is detected by the status query that follows
\* glCompileShader: the queries of the compile check are part of that step.)
C5_FailFast ==
  \A i \in DOMAIN log :
    (~log[i].ok /\ log[i].call \notin ReleaseCalls) =>
      IF log[i].call = "glCompileShader"
      THEN /\ \A j \in (i + 1)..Len(log) : log[j].call \in CompileCheckCalls
           /\ \/ pc = "check_compile" /\ i = Len(log)
              \/ pc = "aborted" /\ exit \notin {"running", "0"}
      ELSE /\ i = Len(log)
           /\ pc = "aborted"
           /\ exit \notin {"running", "0"}

\* C6: for every extension string the display reports, context_init passes
\* the capability check and goes on to configuration selection if and only
\* if the display advertises both EGL_KHR_create_context and
\* EGL_KHR_surfaceless_context as whole extension names; otherwise it fails
\* after display initialization and before configuration selection.
C6_CapabilityCheckWholeNames ==
  (Called("eglQueryString") /\ pc # "assert_exts" /\ egl_exts # NULL) =>
    IF Advertises(egl_exts, EXT_CREATE_CONTEXT) /\ Advertises(egl_exts, EXT_SURFACELESS)
    THEN abortAt # "assert_exts"
    ELSE /\ pc = "aborted" /\ abortAt = "assert_exts"
         /\ dpyState = "initialized"
         /\ ~Called("eglChooseConfig")

\* C7: if the chooser reports no configuration matching the ES3
\* renderable-type requirement, context_init fails at the configuration
\* selection step and neither binds the API nor creates an execution context.
C7_NoConfigFailsAtSelection ==
  \A i \in DOMAIN log :
    (log[i].call = "eglChooseConfig" /\ ~log[i].ok) =>
      /\ pc = "aborted" /\ abortAt = "eglChooseConfig"
      /\ ~Called("eglBindAPI")
      /\ ~Called("eglCreateContext")

\* C8: whenever the compile status read back is GL_FALSE, shader_load
\* queries the length of the diagnostic log, then retrieves the log, prints
\* it and aborts; no program object is ever created and shader_run is never
\* called.
C8_CompileFailureAborts ==
  (CalledWith("glGetShaderiv", "GL_COMPILE_STATUS") /\ success = GL_FALSE) =>
    /\ pc = "aborted" /\ abortAt = "check_compile" /\ exit = "SIGABRT"
    /\ Len(log) >= 3
    /\ log[Len(log) - 2] = Call("glGetShaderiv", "GL_COMPILE_STATUS", TRUE)
    /\ log[Len(log) - 1] = Call("glGetShaderiv", "GL_INFO_LOG_LENGTH", TRUE)
    /\ log[Len(log)].call = "glGetShaderInfoLog"
    /\ Len(out) >= 1
    /\ out[Len(out)] = <<"Shader compilation error: ", "shader.cs", log_size>>
    /\ progObj = "none" /\ ~Called("glCreateProgram")
    /\ ~Called("glUseProgram") /\ ~Called("glDispatchCompute")

\* C8 witness: a compile that failed with a non-empty diagnostic log, the
\* process aborted by the assert in the compile check
C8_Witness ==
  /\ pc = "aborted" /\ abortAt = "check_compile"
  /\ success = GL_FALSE /\ src = "invalid"
  /\ log_size > 0
  /\ CalledWith("glGetShaderiv", "GL_INFO_LOG_LENGTH")

\* C9: a rejected link makes shader_load fail at the link step; shader_load
\* never goes past glLinkProgram with a program whose link failed.
C9_LinkFailureFailsLoad ==
  (Called("glLinkProgram") /\ linked # GL_TRUE) =>
    (pc = "aborted" /\ abortAt = "glLinkProgram")

\* C10: when shader_load has returned for a source the compiler accepted and
\* the context is current, shader_run does not fail: neither glUseProgram
\* nor glDispatchCompute leaves a GL error.
C10_RunAfterLoadSucceeds ==
  (Called("glDeleteShader") /\ compiled = GL_TRUE /\ current = CTX) =>
    ~(pc = "aborted" /\ abortAt \in {"glUseProgram", "glDispatchCompute"})

\* the calls of shader_load, in order, when the compile succeeds
LoadSteps ==
  <<"fopen", "glCreateShader", "glShaderSource", "glCompileShader",
    "glGetShaderiv", "glCreateProgram", "glAttachShader", "glLinkProgram",
    "glDeleteShader">>

\* C11: shader_run on a shader for which no shader_load has succeeded
\* (program handle zero, or not the name of a linked program) never
\* completes: it gets past glDispatchCompute only with a linked program
\* installed.  In main() (the runs that begin with open) shader_run is
\* entered only after shader_load has made all of its calls.
C11_RunNeedsLoadedProgram ==
  /\ Called("glDispatchCompute") /\ log[Len(log)].call = "glDispatchCompute"
       /\ pc # "aborted"
       => /\ IsProgram(program_id) /\ linked = GL_TRUE
          /\ activeProg = program_id
  /\ Called("glUseProgram") /\ ~(IsProgram(program_id) /\ linked = GL_TRUE)
       => /\ pc \in {"glDispatchCompute", "aborted"}
          /\ pc = "aborted" => abortAt \in {"glUseProgram", "glDispatchCompute"}
          /\ exit # "0"
  /\ (Called("open") /\ Called("glUseProgram")) =>
       \E i \in DOMAIN log :
         /\ log[i + Len(LoadSteps)].call = "glUseProgram"
         /\ \A k \in 1..Len(LoadSteps) : log[i + k - 1].call = LoadSteps[k]

\* C11 witness: shader_run entered with program handle zero: glUseProgram(0)
\* raised nothing and the run was aborted by the check after the dispatch
C11_Witness ==
  /\ pc = "aborted" /\ abortAt = "glDispatchCompute"
  /\ CalledWith("glUseProgram", "0")
  /\ program_id = 0

\* the calls into GL
GpuCalls ==
  {"glGetString", "glCreateShader", "glShaderSource", "glCompileShader",
   "glGetShaderiv", "glGetShaderInfoLog", "glCreateProgram", "glAttachShader",
   "glLinkProgram", "glDeleteShader", "glUseProgram", "glDispatchCompute",
   "glDeleteProgram"}

\* C12: every GL call is issued after a successful eglMakeCurrent and before
\* context_uninit begins; a program object exists only while the context is
\* current and context_uninit has not begun; shader_unload precedes
\* context_uninit.
C12_GpuCallsUnderCurrentContext ==
  /\ \A i \in DOMAIN log :
       log[i].call \in GpuCalls =>
         /\ \E j \in 1..(i - 1) : log[j].call = "eglMakeCurrent" /\ log[j].ok
         /\ \A k \in 1..i : log[k].call # "eglDestroyContext"
  /\ Called("eglDestroyContext") => Called("glDeleteProgram")
  /\ progObj \in {"alive", "flagged"} =>
       /\ current = CTX /\ ctxState = "alive"
       /\ ~Called("eglDestroyContext")

\* the statements of context_print_info, shader_load, shader_run and
\* shader_unload
QueryAndShaderPcs ==
  {"context_print_info", "fopen", "glCreateShader", "glShaderSource",
   "glCompileShader", "check_compile", "glCreateProgram", "glAttachShader",
   "glLinkProgram", "glDeleteShader", "glUseProgram", "glDispatchCompute",
   "glDeleteProgram"}

\* the statements of context_init
InitPcs ==
  {"open", "gbm_create_device", "eglGetPlatformDisplay", "eglInitialize",
   "eglQueryString", "assert_exts", "eglChooseConfig", "eglBindAPI",
   "eglCreateContext", "eglMakeCurrent"}

\* C13: no step of context_print_info, shader_load, shader_run or
\* shader_unload changes the device handle, the display handle, the
\* execution context, the API version pair or the current-context binding
\* (nor the objects behind them), and no step outside context_init writes
\* the API version pair.
C13_OnlyInitAndUninitWriteContext ==
  [][/\ pc \in QueryAndShaderPcs =>
          UNCHANGED <<node_fd, gbm, egl_disp, egl_ctx, egl_major, egl_minor,
                      current, fdOpen, gbmState, dpyState, ctxState>>
     /\ pc \notin InitPcs => UNCHANGED <<egl_major, egl_minor>>]_vars

\* C13 witness: describe, load, run and unload have all run and the context
\* is as context_init left it, version pair included
C13_Witness ==
  /\ pc = "eglDestroyContext"
  /\ Called("glGetString") /\ Called("glLinkProgram")
  /\ Called("glDispatchCompute") /\ Called("glDeleteProgram")
  /\ gbm = GBM_DEV /\ egl_disp = DPY /\ egl_ctx = CTX /\ current = CTX
  /\ egl_major = 1 /\ egl_minor \in 0..MaxMinor

\* the calls of a complete run: initialize, describe, load, run, unload,
\* release, each made once
FullRun ==
  InitSteps
    \o (IF verbose # 0 THEN <<"eglQueryString">> ELSE <<>>)
    \o <<"glGetString", "glGetString", "glGetString", "glGetString">>
    \o (IF verbose # 0 THEN <<"glGetString">> ELSE <<>>)
    \o LoadSteps
    \o <<"glUseProgram", "glDispatchCompute">>
    \o <<"glDeleteProgram">>
    \o <<"eglDestroyContext", "eglTerminate", "gbm_device_destroy">>

\* C14: the process returns 0 only in a run in which initialize, describe,
\* load, run, unload and release were each executed exactly once, in that
\* order, and every step succeeded.
C14_ExitZeroOnlyAfterFullSuccess ==
  exit = "0" =>
    /\ Len(log) = Len(FullRun)
    /\ \A i \in DOMAIN log : log[i].call = FullRun[i]
    /\ \A i \in DOMAIN log : log[i].ok

\* C15: every operation of initialize, load and run that can fail has its
\* outcome examined before the next call is issued: a call that is followed
\* by another call has succeeded (after a failed compile only the queries
\* of the compile check follow).
C15_EveryOutcomeChecked ==
  \A i \in DOMAIN log :
    (i < Len(log) /\ log[i].call \notin ReleaseCalls /\ ~log[i].ok) =>
      /\ log[i].call = "glCompileShader"
      /\ log[i + 1].call \in CompileCheckCalls

\* the lines context_print_info prints, by their labels
DescribeLabels ==
  {"EGL v", "EGL Extensions: ", "GL Vendor: ", "GL Renderer: ", "GL Version: ",
   "GL Shading language: ", "GL Extensions: "}

Labels(lines) == [i \in DOMAIN lines |-> lines[i][1]]

IsDescribeLine(line) == line[1] \in DescribeLabels

\* C16: context_print_info always prints the API version pair and the
\* vendor, renderer, version and shading-language strings, and prints the
\* display-layer and GL-layer extension strings if and only if verbose is
\* set.
C16_DescribeOutput ==
  Called("glGetString") =>
    LET d == SelectSeq(out, IsDescribeLine) IN
      /\ Labels(d) =
           IF verbose = 0
           THEN <<"EGL v", "GL Vendor: ", "GL Renderer: ", "GL Version: ",
                  "GL Shading language: ">>
           ELSE <<"EGL v", "EGL Extensions: ", "GL Vendor: ", "GL Renderer: ",
                  "GL Version: ", "GL Shading language: ", "GL Extensions: ">>
      /\ d[1][2] = <<egl_major, egl_minor>>
      /\ verbose # 0 => d[2][2] = dpyExts /\ d[7][2] = "GL_EXTENSIONS"

\* C16 witness: context_print_info has run with verbose set and printed
\* seven lines
C16_Witness ==
  /\ pc = "fopen"
  /\ verbose = 1
  /\ Len(out) = 7
  /\ out[2][1] = "EGL Extensions: "

\* C17: after context_uninit has returned no execution context is current
\* on the thread.
C17_NotCurrentAfterUninit ==
  pc \in {"return", "done"} => current = EGL_NO_CONTEXT

\* C18: context_init fails at the device-open step if and only if open
\* failed: for every descriptor a successful open returns, descriptor 0
\* included, initialization goes on to create the device abstraction.
C18_OpenFailsIffOpenFails ==
  Called("open") =>
    ((pc = "aborted" /\ abortAt = "open") <=> ~log[1].ok)

\* C19: when shader_load has returned, the compile unit has been deleted,
\* by the one glDeleteShader call made after glLinkProgram: no compile unit
\* is alive outside shader_load.
C19_CompileUnitDeletedInLoad ==
  Called("glDeleteShader") =>
    /\ Cardinality({i \in DOMAIN log : log[i].call = "glDeleteShader"}) = 1
    /\ \E i \in DOMAIN log :
         /\ log[i].call = "glLinkProgram"
         /\ log[i + 1].call = "glDeleteShader"
    /\ shaderObj = "deleted"
====
